---- MODULE Spec2Model ----
(***************************************************************************)
(* Layout-based PDF document classifier (MorrisSimons/filed-ai-assignment).*)
(*                                                                         *)
(* The model covers                                                        *)
(*   - the layout extractor   extract_text_from_pdf                        *)
(*   - the two rule matchers  analyze_form_content (Solution_2_server.py)  *)
(*                            analyze_form_content_improved                *)
(*                            (improved_pdf_classifier.py)                 *)
(*   - the fallback cascade   classify_document, id_check,                 *)
(*                            handwritten_check                            *)
(*   - one iteration of the batch script classify_and_copy_pdfs_improved   *)
(*   - a second call of classify_document on the same file (SpecTwice)     *)
(*   - the HTTP service: POST /classify and GET / with the per-client and  *)
(*     per-file rate limiters and validate_file_content (SpecHttp)         *)
(*   - requests to POST /classify served at once, rate_limit_check taken   *)
(*     statement by statement (SpecConcurrent)                             *)
(*   - sweeps of the font sizes (SpecSizes) and of the reference box of    *)
(*     the 1098 year lookup (SpecYearBox)                                  *)
(*                                                                         *)
(* Units: font sizes and page coordinates are held as integers in          *)
(* hundredths of a point (7.0 pt = 700, 437.46 = 43746), so that a value   *)
(* one hundredth beyond a tolerance is representable.  Texts and font      *)
(* names are strings; Python's None is the value None below.  The span     *)
(* fields font_color and page are read by no rule and are left out.        *)
(***************************************************************************)
EXTENDS Integers, Sequences, FiniteSets, TLC

VARIABLES
    pdf,            \* the file handed to the program: [openable, damaged, source]
    program,        \* which program processes it: "server" or "batch"
    pc,             \* position inside classify_document / the batch loop body
    lines,          \* local `lines` of classify_document (after extraction)
    text_spans,     \* local `text_spans` of classify_document
    line_no,        \* 1-based index of the line the matcher returned on, 0 if none
    document_type,  \* local `document_type`
    year,           \* local `year`
    calls,          \* history: the collaborators invoked so far, in order
    result,         \* what the program returned for this file, None before that
    open_handles,   \* fitz documents opened and not closed so far
    answers,        \* what each detector has answered for this file, None unasked
    run,            \* 1 in the first call of classify_document on the file, 2 in the second
    first,          \* what the first call returned, << >> before the second call
    request_counts,     \* module global request_counts: client ip -> timestamps
    file_upload_counts, \* module global file_upload_counts: file hash -> timestamps
    now,            \* the clock that time.time() reads, in seconds
    handled,        \* history: the number of requests the service has answered
    response,       \* the last HTTP response: [upload, status, document_type, year]
    rejected,       \* history: the clients and file hashes answered 429 so far
    inflight        \* the requests being served at once: id -> locals and position

\* the module globals of Solution_2_server.py and the client's view
endpoint_vars == <<request_counts, file_upload_counts, now, handled, response,
                   rejected, inflight>>

\* the state of one file across two calls of classify_document
rerun_vars == <<run, first>>

vars == <<pdf, program, pc, lines, text_spans, line_no, document_type, year,
          calls, result, open_handles, answers, rerun_vars, endpoint_vars>>

-----------------------------------------------------------------------------
(* Python values *)

None == "<None>"

\* `not v` for an Optional[str]
Falsy(v) == v = None \/ v = ""

abs(x) == IF x < 0 THEN -x ELSE x

Min2(a, b) == IF a < b THEN a ELSE b

-----------------------------------------------------------------------------
(* str methods, computed character by character *)

Char(s, i) == SubSeq(s, i, i)

Digits == {"0", "1", "2", "3", "4", "5", "6", "7", "8", "9"}

\* str.isdigit(): non-empty and every character a digit
isdigit(s) == Len(s) > 0 /\ \A i \in 1..Len(s) : Char(s, i) \in Digits

\* str.startswith(p)
startswith(s, p) == Len(s) >= Len(p) /\ SubSeq(s, 1, Len(p)) = p

\* `sub in s`
contains(s, sub) ==
    \E i \in 1..(Len(s) - Len(sub) + 1) : SubSeq(s, i, i + Len(sub) - 1) = sub

\* str.find(c): 0-based index of the first occurrence, -1 if there is none
find(s, c) ==
    LET hits == {i \in 1..Len(s) : Char(s, i) = c}
    IN  IF hits = {} THEN -1
        ELSE (CHOOSE i \in hits : \A j \in hits : i <= j) - 1

\* s[start:end] with 0 <= start, end
slice(s, start, end) == SubSeq(s, start + 1, end)

\* str.strip(): drops leading and trailing blanks
strip(s) ==
    LET keep == {i \in 1..Len(s) : Char(s, i) # " "}
    IN  IF keep = {} THEN ""
        ELSE SubSeq(s, CHOOSE i \in keep : \A j \in keep : i <= j,
                       CHOOSE i \in keep : \A j \in keep : i >= j)

-----------------------------------------------------------------------------
(* Layout extractor *)

\* bbox of a span that has none (span.get("bbox", None))
NoBbox == << >>

RECURSIVE JoinTexts(_)
\* line_text after the loop `line_text += text + " "`
JoinTexts(spans) ==
    IF spans = << >> THEN ""
    ELSE spans[1].text \o " " \o JoinTexts(Tail(spans))

\* LineSpans without the test `if text:`: blank runs are kept
LineSpans_KeepBlank(src_line) ==
    [i \in 1..Len(src_line) |->
        [text      |-> strip(src_line[i].text),
         font_name |-> src_line[i].font,
         font_size |-> src_line[i].size,
         bbox      |-> src_line[i].bbox]]

\* The spans one source line contributes: runs whose trimmed text is empty
\* are skipped, the others carry their trimmed text.
LineSpans(src_line) ==
    LET kept == SelectSeq(src_line, LAMBDA s : strip(s.text) # "")
    IN  [i \in 1..Len(kept) |->
            [text      |-> strip(kept[i].text),
             font_name |-> kept[i].font,
             font_size |-> kept[i].size,
             bbox      |-> kept[i].bbox]]

RECURSIVE ExtractLines(_)
\* the list `lines`: a source line without text is omitted
ExtractLines(source) ==
    IF source = << >> THEN << >>
    ELSE LET line_spans == LineSpans(source[1])
             line_text  == JoinTexts(line_spans)
         IN  (IF strip(line_text) # ""
                 THEN << [text |-> strip(line_text), spans |-> line_spans] >>
                 ELSE << >>)
             \o ExtractLines(Tail(source))

RECURSIVE ExtractSpans(_)
\* the list `results`: every kept span, in reading order
ExtractSpans(source) ==
    IF source = << >> THEN << >>
    ELSE LineSpans(source[1]) \o ExtractSpans(Tail(source))

extract_text_from_pdf(source) ==
    [text_spans |-> ExtractSpans(source), lines |-> ExtractLines(source)]

-----------------------------------------------------------------------------
(* Helpers shared by the two rule matchers *)

RECURSIVE SpansOf(_)
\* the order of `for l in lines: for s in l.get("spans", [])`
SpansOf(ls) == IF ls = << >> THEN << >> ELSE ls[1].spans \o SpansOf(Tail(ls))

\* the first of the positions `hits` of a list, 0 if there is none
\* (the loops return or break at the first hit)
First(hits) ==
    IF hits = {} THEN 0 ELSE CHOOSE i \in hits : \A j \in hits : i <= j

\* SizeMatches with the bound excluded
SizeMatches_Strict(actual, expected) == abs(actual - expected) < 200

\* abs(span["font_size"] - expected) <= 2 of the document-type rules
SizeMatches(actual, expected) == abs(actual - expected) <= 200

\* abs(s.get("font_size", 0) - 6.0) < 2 of the 1098 year lookup
YearSizeMatches(actual) == abs(actual - 600) < 200

year_bbox == <<43746, 9837, 44414, 10438>>

\* BboxMatches with the bound included
BboxMatches_Inclusive(bbox, tol) ==
    /\ Len(bbox) > 0
    /\ \A k \in 1..Min2(Len(bbox), Len(year_bbox)) : abs(bbox[k] - year_bbox[k]) <= tol

\* all(abs(b - e) < tol for b, e in zip(bbox, year_bbox)), guarded by `bbox and`
BboxMatches(bbox, tol) ==
    /\ Len(bbox) > 0
    /\ \A k \in 1..Min2(Len(bbox), Len(year_bbox)) : abs(bbox[k] - year_bbox[k]) < tol

\* the span test of the 1098 year lookup
Is1098YearSpan(s, tol) ==
    /\ BboxMatches(s.bbox, tol)
    /\ isdigit(s.text) /\ Len(s.text) = 2
    /\ YearSizeMatches(s.font_size)
    /\ contains(s.font_name, "Helvetica")

-----------------------------------------------------------------------------
(* Document-type rules: the conditions of the if/elif chain, one per form. *)
(* Both matchers use the same four conditions.                             *)

\* Rule1098 with the family of the "Form" span taken from the W-2 rule
Rule1098_FormBd(line) ==
    /\ strip(line.text) = "Form 1098"
    /\ Len(line.spans) = 2
    /\ line.spans[1].text = "Form" /\ line.spans[2].text = "1098"
    /\ abs(line.spans[1].font_size - 700) <= 200
    /\ line.spans[1].font_name = "HelveticaNeueLTStd-Bd"
    /\ abs(line.spans[2].font_size - 1400) <= 200
    /\ line.spans[2].font_name = "HelveticaNeueLTStd-Bd"

\* text == "Form 1098", two spans "Form" / "1098", sizes and families
Rule1098(line) ==
    /\ strip(line.text) = "Form 1098"
    /\ Len(line.spans) = 2
    /\ line.spans[1].text = "Form" /\ line.spans[2].text = "1098"
    /\ SizeMatches(line.spans[1].font_size, 700)
    /\ line.spans[1].font_name = "HelveticaNeueLTStd-Roman"
    /\ SizeMatches(line.spans[2].font_size, 1400)
    /\ line.spans[2].font_name = "HelveticaNeueLTStd-Bd"

\* text in ["Form 1099-INT", "Form 1099-DIV"], two spans, the first "Form"
Rule1099(line) ==
    /\ strip(line.text) \in {"Form 1099-INT", "Form 1099-DIV"}
    /\ Len(line.spans) = 2
    /\ line.spans[1].text = "Form"
    /\ SizeMatches(line.spans[1].font_size, 700)
    /\ line.spans[1].font_name = "HelveticaNeueLTStd-Roman"
    /\ SizeMatches(line.spans[2].font_size, 1200)
    /\ line.spans[2].font_name = "HelveticaNeueLTStd-Bd"

\* text == "Form W-2", two spans "Form" / "W-2"
RuleW2(line) ==
    /\ strip(line.text) = "Form W-2"
    /\ Len(line.spans) = 2
    /\ line.spans[1].text = "Form" /\ line.spans[2].text = "W-2"
    /\ SizeMatches(line.spans[1].font_size, 700)
    /\ line.spans[1].font_name = "HelveticaNeueLTStd-Bd"
    /\ SizeMatches(line.spans[2].font_size, 2400)
    /\ line.spans[2].font_name = "HelveticaNeueLTStd-BlkCn"

\* text.startswith("Form 1040"), at least two spans, "Form" / "1040"
Rule1040(line) ==
    /\ startswith(strip(line.text), "Form 1040")
    /\ Len(line.spans) >= 2
    /\ line.spans[1].text = "Form" /\ line.spans[2].text = "1040"
    /\ SizeMatches(line.spans[1].font_size, 600)
    /\ line.spans[1].font_name = "HelveticaNeueLTStd-Roman"
    /\ SizeMatches(line.spans[2].font_size, 900)
    /\ line.spans[2].font_name = "HelveticaNeueLTStd-Bd"

\* The branch of the if/elif chain a line takes and returns from: the chain
\* is keyed on the line's text, and the four texts exclude one another.
FiringRule(line) ==
    IF Rule1098(line) THEN "1098"
    ELSE IF Rule1099(line) THEN "1099"
    ELSE IF RuleW2(line) THEN "W2"
    ELSE IF Rule1040(line) THEN "1040"
    ELSE None

\* MatchingLine when the scan does not stop and the last match overwrites
MatchingLine_Last(ls) ==
    LET hits == {i \in 1..Len(ls) : FiringRule(ls[i]) # None}
    IN  IF hits = {} THEN 0 ELSE CHOOSE i \in hits : \A j \in hits : i >= j

\* MatchingLine when a line with a trigger text that fails its rule's
\* structure or fonts ends the scan with (None, None)
MatchingLine_StopsAtTrigger(ls) ==
    LET trig == {i \in 1..Len(ls) :
                    \/ ls[i].text \in {"Form 1098", "Form 1099-INT", "Form 1099-DIV", "Form W-2"}
                    \/ startswith(ls[i].text, "Form 1040")}
    IN  IF trig # {} /\ FiringRule(ls[First(trig)]) = None
        THEN 0
        ELSE First({i \in 1..Len(ls) : FiringRule(ls[i]) # None})

\* `for line in lines:` returns at the first line whose branch returns
MatchingLine(ls) == First({i \in 1..Len(ls) : FiringRule(ls[i]) # None})

-----------------------------------------------------------------------------
(* Year lookups shared by the matchers *)

\* text of the span at position i of the document, "" for no position
\* (year = "" ... year = text_val; break)
TextAt(all, i) == IF i = 0 THEN "" ELSE strip(all[i].text)

\* 4 digits starting with "20"
IsYear4(t) == isdigit(t) /\ Len(t) = 4 /\ startswith(t, "20")

\* 2 digits starting with "2"
IsYear2(t) == isdigit(t) /\ Len(t) = 2 /\ startswith(t, "2")

\* the 1098 lookup: "20" + the two digits found in the reference box
Year1098(ls, tol) ==
    LET all == SpansOf(ls)
        i   == First({k \in 1..Len(all) : Is1098YearSpan(all[k], tol)})
    IN  IF i = 0 THEN "" ELSE "20" \o all[i].text

\* "Method 1: Look for 4-digit years in the document"
YearFourDigits(ls) ==
    LET all == SpansOf(ls)
    IN  TextAt(all, First({k \in 1..Len(all) : IsYear4(strip(all[k].text))}))

\* "Method 2: Look for 2-digit years and convert"
YearTwoDigits(ls) ==
    LET all == SpansOf(ls)
        i   == First({k \in 1..Len(all) : IsYear2(strip(all[k].text))})
    IN  IF i = 0 THEN "" ELSE "20" \o strip(all[i].text)

\* the year in parentheses of the matching line's text, "" if there is none
YearInParentheses(line_text) ==
    IF contains(line_text, "(") /\ contains(line_text, ")")
    THEN LET start == find(line_text, "(") + 1
             end   == find(line_text, ")")
         IN  IF start < end /\ IsYear4(strip(slice(line_text, start, end)))
             THEN strip(slice(line_text, start, end))
             ELSE ""
    ELSE ""

-----------------------------------------------------------------------------
(* analyze_form_content of Solution_2_server.py *)

tolerance == 2000

\* the W-2 year of the server: a 4-digit span in OCRAStd at 24 +/- 2
IsServerW2YearSpan(s) ==
    /\ SizeMatches(s.font_size, 2400)
    /\ s.font_name = "OCRAStd"
    /\ isdigit(s.text)
    /\ Len(s.text) = 4

\* year = s["text"] of the first such span
ServerW2Year(ls) ==
    LET all == SpansOf(ls)
        i   == First({k \in 1..Len(all) : IsServerW2YearSpan(all[k])})
    IN  IF i = 0 THEN "" ELSE all[i].text

\* the year each branch of the server computes before its return
ServerYear(rule, ls, line) ==
    CASE rule = "1098" -> Year1098(ls, tolerance)
      [] rule = "1099" -> YearFourDigits(ls)
      [] rule = "W2"   -> ServerW2Year(ls)
      [] rule = "1040" -> YearInParentheses(line.text)

\* the label each branch of the server returns
ServerLabel(rule) == "1098"

\* analyze_form_content when the scan runs on past a match and the last
\* matching line decides
analyze_form_content_LastLine(spans, ls) ==
    LET i == MatchingLine_Last(ls)
    IN  IF i = 0
        THEN [document_type |-> None, year |-> None, line |-> 0]
        ELSE LET rule == FiringRule(ls[i])
                 y    == ServerYear(rule, ls, ls[i])
             IN  [document_type |-> ServerLabel(rule),
                  year          |-> IF y = "" THEN None ELSE y,
                  line          |-> i]

\* analyze_form_content when the final return hands back a year it saw in
\* a document no rule fired on
analyze_form_content_YearWithoutRule(spans, ls) ==
    LET i == MatchingLine(ls)
    IN  IF i = 0
        THEN [document_type |-> None,
              year          |-> IF YearFourDigits(ls) = "" THEN None ELSE YearFourDigits(ls),
              line          |-> 0]
        ELSE LET rule == FiringRule(ls[i])
                 y    == ServerYear(rule, ls, ls[i])
             IN  [document_type |-> ServerLabel(rule),
                  year          |-> IF y = "" THEN None ELSE y,
                  line          |-> i]

\* `if year == "": return L, None  else: return L, year`
analyze_form_content(spans, ls) ==
    LET i == MatchingLine(ls)
    IN  IF i = 0
        THEN [document_type |-> None, year |-> None, line |-> 0]
        ELSE LET rule == FiringRule(ls[i])
                 y    == ServerYear(rule, ls, ls[i])
             IN  [document_type |-> ServerLabel(rule),
                  year          |-> IF y = "" THEN None ELSE y,
                  line          |-> i]

-----------------------------------------------------------------------------
(* analyze_form_content_improved of improved_pdf_classifier.py *)

margin == 300

\* Method 1 of the W-2 branch: a 4-digit "20xx" span with font size > 15
IsLargeYearSpan(s) == IsYear4(strip(s.text)) /\ s.font_size > 1500

LargeYear(ls) ==
    LET all == SpansOf(ls)
    IN  TextAt(all, First({k \in 1..Len(all) : IsLargeYearSpan(all[k])}))

\* `if not year:` chains of the improved branches
OrElse(a, b) == IF a = "" THEN b ELSE a

ImprovedYear(rule, ls, line) ==
    CASE rule = "1098" -> Year1098(ls, margin)
      [] rule = "1099" -> OrElse(YearFourDigits(ls), YearTwoDigits(ls))
      [] rule = "W2"   -> OrElse(LargeYear(ls), YearFourDigits(ls))
      [] rule = "1040" -> OrElse(YearInParentheses(line.text),
                                 OrElse(YearFourDigits(ls), YearTwoDigits(ls)))

\* the label each branch of the improved matcher returns
ImprovedLabel(rule) == rule

\* every branch ends `return L, year`, with year possibly still ""
analyze_form_content_improved(spans, ls) ==
    LET i == MatchingLine(ls)
    IN  IF i = 0
        THEN [document_type |-> None, year |-> None, line |-> 0]
        ELSE LET rule == FiringRule(ls[i])
             IN  [document_type |-> ImprovedLabel(rule),
                  year          |-> ImprovedYear(rule, ls, ls[i]),
                  line          |-> i]

-----------------------------------------------------------------------------
(* External detectors.  What the service, the environment or the library   *)
(* does is the input `outcome`; the functions turn it into a return value  *)
(* or an exception that leaves the function.                               *)

IdOutcomes == {"unavailable", "no_credentials", "error",
               "PASS", "NOT_AN_ID", "no_entities"}

HwOutcomes == {"unavailable", "no_api_key", "zero_pages", "render_error", "error",
               "YES", "NO"}

\* the outcomes that are failures of a detector rather than answers
IdFailures == {"unavailable", "no_credentials", "error"}

HwFailures == {"unavailable", "no_api_key", "render_error", "error"}

\* id_check without its `except Exception`: an error leaves the function
id_check_Propagates(outcome) ==
    [raised |-> outcome = "error",
     value  |-> IF outcome = "PASS" THEN "ID Card" ELSE None]

\* id_check: "ID Card" on a PASS entity; every other path returns None, the
\* exceptions through `except Exception`
id_check(outcome) ==
    [raised |-> FALSE,
     value  |-> IF outcome = "PASS" THEN "ID Card" ELSE None]

\* handwritten_check: "Handwritten Notes" on the answer YES; every other
\* path returns None, the exceptions through `except Exception`
handwritten_check(outcome) ==
    [raised |-> FALSE,
     value  |-> IF outcome = "YES" THEN "Handwritten Notes" ELSE None]

-----------------------------------------------------------------------------
(* classify_document of Solution_2_server.py, stage by stage *)

Call(fn, outcome, ret) == [fn |-> fn, outcome |-> outcome, ret |-> ret]

\* the fitz documents left open by extract_text_from_pdf: doc.close() is the
\* last statement before the return and no finally guards it, so a page that
\* raises while it is read leaves the document open
HandlesAfterExtract(file, h) == IF file.openable /\ file.damaged THEN h + 1 ELSE h

\* the fitz documents left open by handwritten_check: an exception while the
\* first page is rendered reaches `except Exception` before doc.close()
HandlesAfterHandwritten(outcome, h) == IF outcome = "render_error" THEN h + 1 ELSE h

\* the answers a detector can give now: any on the first request for a
\* file, the same again on a later one
IdAnswers == IF answers.id = None THEN IdOutcomes ELSE {answers.id}

HwAnswers == IF answers.hw = None THEN HwOutcomes ELSE {answers.hw}

\* Extract without the `except Exception` of classify_document: the error of
\* the extractor leaves the function and nothing is returned
Extract_Propagates ==
    /\ program = "server" /\ pc = "EXTRACTING"
    /\ IF pdf.openable /\ ~pdf.damaged
       THEN LET e == extract_text_from_pdf(pdf.source)
            IN  /\ text_spans' = e.text_spans
                /\ lines' = e.lines
                /\ calls' = Append(calls, Call("extract_text_from_pdf", "ok", None))
                /\ pc' = "MATCHING"
       ELSE /\ calls' = Append(calls, Call("extract_text_from_pdf", "raised", None))
            /\ pc' = "DONE"
            /\ UNCHANGED <<text_spans, lines>>
    /\ open_handles' = HandlesAfterExtract(pdf, open_handles)
    /\ UNCHANGED <<pdf, program, line_no, document_type, year, result, answers,
                   rerun_vars, endpoint_vars>>

\* Extract when the first call had removed the file it was given
Extract_AfterUnlink ==
    /\ program = "server" /\ pc = "EXTRACTING"
    /\ IF pdf.openable /\ ~pdf.damaged /\ run = 1
       THEN LET e == extract_text_from_pdf(pdf.source)
            IN  /\ text_spans' = e.text_spans
                /\ lines' = e.lines
                /\ calls' = Append(calls, Call("extract_text_from_pdf", "ok", None))
                /\ pc' = "MATCHING"
                /\ UNCHANGED result
       ELSE /\ calls' = Append(calls, Call("extract_text_from_pdf", "raised", None))
            /\ result' = <<"OTHER", None>>
            /\ pc' = "DONE"
            /\ UNCHANGED <<text_spans, lines>>
    /\ open_handles' = HandlesAfterExtract(pdf, open_handles)
    /\ UNCHANGED <<pdf, program, line_no, document_type, year, answers,
                   rerun_vars, endpoint_vars>>

\* text_spans, lines = extract_text_from_pdf(pdf_path); fitz.open raises on
\* a file that is no PDF, a damaged page raises while it is read, and
\* `except Exception` returns ("OTHER", None)
Extract ==
    /\ program = "server" /\ pc = "EXTRACTING"
    /\ IF pdf.openable /\ ~pdf.damaged
       THEN LET e == extract_text_from_pdf(pdf.source)
            IN  /\ text_spans' = e.text_spans
                /\ lines' = e.lines
                /\ calls' = Append(calls, Call("extract_text_from_pdf", "ok", None))
                /\ pc' = "MATCHING"
                /\ UNCHANGED result
       ELSE /\ calls' = Append(calls, Call("extract_text_from_pdf", "raised", None))
            /\ result' = <<"OTHER", None>>
            /\ pc' = "DONE"
            /\ UNCHANGED <<text_spans, lines>>
    /\ open_handles' = HandlesAfterExtract(pdf, open_handles)
    /\ UNCHANGED <<pdf, program, line_no, document_type, year, answers,
                   rerun_vars, endpoint_vars>>

\* Match when id_check is called without the test `if not document_type`
Match_AlwaysCascade ==
    /\ program = "server" /\ pc = "MATCHING"
    /\ LET r == analyze_form_content(text_spans, lines)
       IN  /\ line_no' = r.line
           /\ calls' = Append(calls, Call("analyze_form_content",
                                 IF r.line = 0 THEN "no_match" ELSE "match",
                                 r.document_type))
           /\ document_type' = r.document_type
           /\ year' = r.year
           /\ pc' = "ID_CHECK"
    /\ UNCHANGED <<pdf, program, lines, text_spans, result, open_handles, answers,
                   rerun_vars, endpoint_vars>>

\* analyze_form_content scans the lines; without a match it returns
\* (None, None) and the cascade starts
Match ==
    /\ program = "server" /\ pc = "MATCHING"
    /\ LET r == analyze_form_content(text_spans, lines)
       IN  /\ line_no' = r.line
           /\ IF r.line = 0
              THEN /\ calls' = Append(calls, Call("analyze_form_content", "no_match", None))
                   /\ document_type' = r.document_type
                   /\ year' = r.year
                   /\ pc' = "ID_CHECK"
              ELSE /\ UNCHANGED <<calls, document_type, year>>
                   /\ pc' = "YEAR_EXTRACTION"
    /\ UNCHANGED <<pdf, program, lines, text_spans, result,
                   open_handles, answers, rerun_vars, endpoint_vars>>

\* the matching branch looks the year up and returns; the three
\* `if not document_type` are skipped and classify_document returns
YearExtract ==
    /\ program = "server" /\ pc = "YEAR_EXTRACTION"
    /\ LET r == analyze_form_content(text_spans, lines)
       IN  /\ document_type' = r.document_type
           /\ year' = r.year
           /\ calls' = Append(calls, Call("analyze_form_content", "match", r.document_type))
           /\ result' = <<r.document_type, r.year>>
    /\ pc' = "DONE"
    /\ UNCHANGED <<pdf, program, lines, text_spans, line_no, open_handles, answers,
                   rerun_vars, endpoint_vars>>

\* IdCheck when a silent ID detector leads straight to "OTHER"
IdCheck_SkipsHandwriting ==
    /\ program = "server" /\ pc = "ID_CHECK"
    /\ \E o \in IdAnswers :
          LET r == id_check(o)
          IN  /\ calls' = Append(calls, Call("id_check", o, r.value))
              /\ answers' = [answers EXCEPT !.id = o]
              /\ document_type' = r.value
              /\ IF Falsy(r.value)
                 THEN pc' = "OTHER" /\ UNCHANGED result
                 ELSE pc' = "DONE" /\ result' = <<r.value, year>>
    /\ UNCHANGED <<pdf, program, lines, text_spans, line_no, year, open_handles,
                   rerun_vars, endpoint_vars>>

\* if not document_type: document_type = id_check(pdf_path)
IdCheck ==
    /\ program = "server" /\ pc = "ID_CHECK"
    /\ \E o \in IdAnswers :
          LET r == id_check(o)
          IN  /\ calls' = Append(calls, Call("id_check", o,
                                 IF r.raised THEN "raised" ELSE r.value))
              /\ answers' = [answers EXCEPT !.id = o]
              /\ IF r.raised
                 THEN /\ result' = <<"OTHER", None>>
                      /\ pc' = "DONE"
                      /\ UNCHANGED document_type
                 ELSE /\ document_type' = r.value
                      /\ IF Falsy(r.value)
                         THEN pc' = "HANDWRITING_CHECK" /\ UNCHANGED result
                         ELSE pc' = "DONE" /\ result' = <<r.value, year>>
    /\ UNCHANGED <<pdf, program, lines, text_spans, line_no, year, open_handles,
                   rerun_vars, endpoint_vars>>

\* if not document_type: document_type = handwritten_check(pdf_path)
HandwrittenCheck ==
    /\ program = "server" /\ pc = "HANDWRITING_CHECK"
    /\ \E o \in HwAnswers :
          LET r == handwritten_check(o)
          IN  /\ calls' = Append(calls, Call("handwritten_check", o,
                                 IF r.raised THEN "raised" ELSE r.value))
              /\ answers' = [answers EXCEPT !.hw = o]
              /\ open_handles' = HandlesAfterHandwritten(o, open_handles)
              /\ IF r.raised
                 THEN /\ result' = <<"OTHER", None>>
                      /\ pc' = "DONE"
                      /\ UNCHANGED document_type
                 ELSE /\ document_type' = r.value
                      /\ IF Falsy(r.value)
                         THEN pc' = "OTHER" /\ UNCHANGED result
                         ELSE pc' = "DONE" /\ result' = <<r.value, year>>
    /\ UNCHANGED <<pdf, program, lines, text_spans, line_no, year,
                   rerun_vars, endpoint_vars>>

\* SetOther with the spelling of the batch script's folder, "Other"
SetOther_BatchSpelling ==
    /\ program = "server" /\ pc = "OTHER"
    /\ document_type' = "Other"
    /\ result' = <<"Other", year>>
    /\ pc' = "DONE"
    /\ UNCHANGED <<pdf, program, lines, text_spans, line_no, year, calls,
                   open_handles, answers, rerun_vars, endpoint_vars>>

\* SetOther when the function ends without its return statement
SetOther_NoReturn ==
    /\ program = "server" /\ pc = "OTHER"
    /\ document_type' = "OTHER"
    /\ pc' = "DONE"
    /\ UNCHANGED <<pdf, program, lines, text_spans, line_no, year, calls, result,
                   open_handles, answers, rerun_vars, endpoint_vars>>

\* if not document_type: document_type = "OTHER"; return document_type, year
SetOther ==
    /\ program = "server" /\ pc = "OTHER"
    /\ document_type' = "OTHER"
    /\ result' = <<"OTHER", year>>
    /\ pc' = "DONE"
    /\ UNCHANGED <<pdf, program, lines, text_spans, line_no, year, calls,
                   open_handles, answers, rerun_vars, endpoint_vars>>

\* classify_document is called on the same file once more: its locals are
\* new, the file, the detectors' answers and the open documents are not
ClassifyAgain ==
    /\ program = "server" /\ pc = "DONE" /\ run = 1
    /\ run' = 2
    /\ first' = result
    /\ pc' = "EXTRACTING"
    /\ lines' = << >>
    /\ text_spans' = << >>
    /\ line_no' = 0
    /\ document_type' = None
    /\ year' = None
    /\ result' = << >>
    /\ UNCHANGED <<pdf, program, calls, open_handles, answers, endpoint_vars>>

-----------------------------------------------------------------------------
(* One file of classify_and_copy_pdfs_improved: the body of its try.       *)
(* An unreadable file raises, is printed and nothing is copied.            *)

ClassifyImproved ==
    /\ program = "batch" /\ pc = "BATCH"
    /\ IF pdf.openable /\ ~pdf.damaged
       THEN LET e == extract_text_from_pdf(pdf.source)
                r == analyze_form_content_improved(e.text_spans, e.lines)
            IN  /\ text_spans' = e.text_spans
                /\ lines' = e.lines
                /\ line_no' = r.line
                /\ document_type' = r.document_type
                /\ year' = r.year
                /\ result' = <<r.document_type, r.year>>
                /\ calls' = calls \o
                     << Call("extract_text_from_pdf", "ok", None),
                        Call("analyze_form_content_improved",
                             IF r.line = 0 THEN "no_match" ELSE "match",
                             r.document_type) >>
                /\ pc' = "DONE"
       ELSE /\ calls' = Append(calls, Call("extract_text_from_pdf", "raised", None))
            /\ pc' = "FAILED"
            /\ UNCHANGED <<text_spans, lines, line_no, document_type, year, result>>
    /\ open_handles' = HandlesAfterExtract(pdf, open_handles)
    /\ UNCHANGED <<pdf, program, answers, rerun_vars, endpoint_vars>>

-----------------------------------------------------------------------------
(* The HTTP service of Solution_2_server.py: limits, validation, endpoints *)

MAX_FILE_SIZE == 4194304

ALLOWED_MIME_TYPES == {"application/pdf"}

RATE_LIMIT_REQUESTS == 100

RATE_LIMIT_WINDOW == 172800

RATE_LIMIT_PER_FILE == 10

RATE_LIMIT_FILE_WINDOW == 172800

\* d[k] of a defaultdict(list): a key never written reads as the empty list
Get(d, k) == IF k \in DOMAIN d THEN d[k] ELSE << >>

\* d[k] = v
Put(d, k, v) == [x \in DOMAIN d \cup {k} |-> IF x = k THEN v ELSE d[x]]

\* [t for t in stamps if current_time - t < window]
Recent(stamps, current_time, window) ==
    SelectSeq(stamps, LAMBDA t : current_time - t < window)

\* rate_limit_check: the client's list is pruned and stored; 429 when it
\* holds RATE_LIMIT_REQUESTS stamps, else the request is stamped (status 200)
rate_limit_check(counts, client_ip, current_time) ==
    LET kept == Recent(Get(counts, client_ip), current_time, RATE_LIMIT_WINDOW)
    IN  IF Len(kept) >= RATE_LIMIT_REQUESTS
        THEN [status |-> 429, counts |-> Put(counts, client_ip, kept)]
        ELSE [status |-> 200, counts |-> Put(counts, client_ip, Append(kept, current_time))]

\* hashlib.md5(file_content).hexdigest(): equal contents, equal keys
md5(content) == content

\* rate_limit_file_check when the upload is stamped before the limit is tested
rate_limit_file_check_StampsFirst(counts, content, current_time) ==
    LET kept == Recent(Get(counts, md5(content)), current_time, RATE_LIMIT_FILE_WINDOW)
    IN  [status |-> IF Len(kept) >= RATE_LIMIT_PER_FILE THEN 429 ELSE 200,
         counts |-> Put(counts, md5(content), Append(kept, current_time))]

\* rate_limit_file_check: the same per content hash, with RATE_LIMIT_PER_FILE
rate_limit_file_check(counts, content, current_time) ==
    LET kept == Recent(Get(counts, md5(content)), current_time, RATE_LIMIT_FILE_WINDOW)
    IN  IF Len(kept) >= RATE_LIMIT_PER_FILE
        THEN [status |-> 429, counts |-> Put(counts, md5(content), kept)]
        ELSE [status |-> 200, counts |-> Put(counts, md5(content), Append(kept, current_time))]

\* validate_file_content: size, then the MIME type libmagic reports (an
\* error of libmagic is answered 400 too), then the %PDF header
validate_file_content(upload) ==
    IF upload.size > MAX_FILE_SIZE THEN 413
    ELSE IF upload.mime \notin ALLOWED_MIME_TYPES THEN 400
    ELSE IF ~upload.header THEN 400
    ELSE 200

\* classify_document as one function of the file and of what the two
\* detectors answer
classify_document(file, id_outcome, hw_outcome) ==
    IF ~(file.openable /\ ~file.damaged) THEN <<"OTHER", None>>
    ELSE
      LET e == extract_text_from_pdf(file.source)
          r == analyze_form_content(e.text_spans, e.lines)
          i == id_check(id_outcome)
          h == handwritten_check(hw_outcome)
      IN  IF ~Falsy(r.document_type) THEN <<r.document_type, r.year>>
          ELSE IF i.raised THEN <<"OTHER", None>>
          ELSE IF ~Falsy(i.value) THEN <<i.value, r.year>>
          ELSE IF h.raised THEN <<"OTHER", None>>
          ELSE IF ~Falsy(h.value) THEN <<h.value, r.year>>
          ELSE <<"OTHER", r.year>>

\* what the handler of POST /classify answers and leaves in
\* file_upload_counts; `by` names the function that ended the request
Answer(status, by, counts, res, classified) ==
    [status |-> status, by |-> by, counts |-> counts,
     document_type |-> res[1], year |-> res[2], classified |-> classified]

\* the handler with the per-file limiter called before the validation
classify_document_endpoint_LimitFirst(counts, upload, current_time, id_outcome, hw_outcome) ==
    IF ~upload.present
    THEN Answer(400, "classify_document_endpoint", counts, <<None, None>>, FALSE)
    ELSE
      LET v  == validate_file_content(upload)
          fl == rate_limit_file_check(counts, upload.content, current_time)
      IN  IF fl.status # 200
          THEN Answer(fl.status, "rate_limit_file_check", fl.counts, <<None, None>>, FALSE)
          ELSE IF v # 200
          THEN Answer(v, "validate_file_content", fl.counts, <<None, None>>, FALSE)
          ELSE Answer(200, "classify_document", fl.counts,
                      classify_document(upload.file, id_outcome, hw_outcome), TRUE)

\* classify_document_endpoint after its dependency rate_limit_check: no
\* file, validation, per-file limit, classification
classify_document_endpoint(counts, upload, current_time, id_outcome, hw_outcome) ==
    IF ~upload.present
    THEN Answer(400, "classify_document_endpoint", counts, <<None, None>>, FALSE)
    ELSE
      LET v  == validate_file_content(upload)
          fl == rate_limit_file_check(counts, upload.content, current_time)
      IN  IF v # 200
          THEN Answer(v, "validate_file_content", counts, <<None, None>>, FALSE)
          ELSE IF fl.status # 200
          THEN Answer(fl.status, "rate_limit_file_check", fl.counts, <<None, None>>, FALSE)
          ELSE Answer(200, "classify_document", fl.counts,
                      classify_document(upload.file, id_outcome, hw_outcome), TRUE)

-----------------------------------------------------------------------------
(* Input files *)

Roman == "HelveticaNeueLTStd-Roman"

Bd == "HelveticaNeueLTStd-Bd"

BlkCn == "HelveticaNeueLTStd-BlkCn"

OffBox == <<7200, 7200, 9000, 8000>>

\* a source run as the layout source reports it
Sp(text, font, size, bbox) == [text |-> text, font |-> font, size |-> size, bbox |-> bbox]

\* lines that satisfy a document-type rule
TriggerLines ==
    { << Sp("Form", Roman, 700, OffBox), Sp("1098", Bd, 1400, OffBox) >>,
      << Sp("Form", Roman, 700, OffBox), Sp("1099-INT", Bd, 1200, OffBox) >>,
      << Sp("Form", Roman, 700, OffBox), Sp("1099-DIV", Bd, 1200, OffBox) >>,
      << Sp("Form", Bd, 700, OffBox), Sp("W-2", BlkCn, 2400, OffBox) >>,
      << Sp("Form ", Roman, 600, OffBox), Sp("1040", Bd, 900, OffBox) >>,
      << Sp("Form", Roman, 600, OffBox), Sp("1040", Bd, 900, OffBox),
         Sp("(2022)", Roman, 900, OffBox) >> }

\* lines with a trigger text that fail the structure, a family or a size
NearMissLines ==
    { << Sp("Form 1098", Bd, 1400, OffBox) >>,
      << Sp("Form", Bd, 700, OffBox), Sp("1098", Bd, 1400, OffBox) >>,
      << Sp("Form", Roman, 700, OffBox), Sp("1099-INT", Bd, 1500, OffBox) >>,
      << Sp("Form", Roman, 700, OffBox), Sp("W-2", BlkCn, 2400, OffBox) >> }

\* lines that carry a year token, or something that looks like one
YearLines ==
    { << Sp("2022", Bd, 2000, OffBox) >>,
      << Sp(" ", Roman, 900, OffBox), Sp(" 2021 ", Roman, 800, OffBox) >>,
      << Sp("1999", "OCRAStd", 2400, OffBox) >>,
      << Sp("2023", "OCRAStd", 2400, OffBox) >>,
      << Sp("24", Roman, 600, year_bbox) >>,
      << Sp("23", Roman, 600, NoBbox) >>,
      << Sp("25", Roman, 600, <<44746, 10837, 45414, 11438>>) >> }

\* lines without significance, one of them blank
OtherLines ==
    { << Sp("Wages", Roman, 900, OffBox) >>,
      << Sp("  ", Roman, 900, OffBox) >> }

LinePool == TriggerLines \cup NearMissLines \cup YearLines \cup OtherLines

MaxLines == 2

\* the sequences over S of length at most n
SeqsUpTo(S, n) == UNION {[1..k -> S] : k \in 0..n}

\* the files: the readable ones, one that fitz.open refuses and one that
\* opens and raises while its page is read
Pdfs(sources) ==
    {[openable |-> TRUE, damaged |-> FALSE, source |-> d] : d \in sources}
        \cup {[openable |-> FALSE, damaged |-> FALSE, source |-> << >>],
              [openable |-> TRUE, damaged |-> TRUE, source |-> << >>]}

\* the module globals after import, before any request
InitEndpoint ==
    /\ request_counts = << >>
    /\ file_upload_counts = << >>
    /\ now = 0
    /\ handled = 0
    /\ response = << >>
    /\ rejected = {}
    /\ inflight = << >>

InitWith(sources) ==
    /\ pdf \in Pdfs(sources)
    /\ program \in {"server", "batch"}
    /\ pc = IF program = "server" THEN "EXTRACTING" ELSE "BATCH"
    /\ lines = << >>
    /\ text_spans = << >>
    /\ line_no = 0
    /\ document_type = None
    /\ year = None
    /\ calls = << >>
    /\ result = << >>
    /\ open_handles = 0
    /\ answers = [id |-> None, hw |-> None]
    /\ run = 1
    /\ first = << >>
    /\ InitEndpoint

Init == InitWith(SeqsUpTo(LinePool, MaxLines))

Next ==
    \/ Extract
    \/ Match
    \/ YearExtract
    \/ IdCheck
    \/ HandwrittenCheck
    \/ SetOther
    \/ ClassifyImproved

Spec == Init /\ [][Next]_vars

-----------------------------------------------------------------------------
(* classify_document called twice on the same file *)

TwiceLines == 1

InitTwice == InitWith(SeqsUpTo(LinePool, TwiceLines))

NextTwice == Next \/ ClassifyAgain

SpecTwice == InitTwice /\ [][NextTwice]_vars

-----------------------------------------------------------------------------
(* Documents that sweep the font sizes around each tolerance window *)

\* the sizes at, just inside and just outside a window of 2 pt around e
Around(e) == {e - 201, e - 200, e, e + 200, e + 201}

SizedTrigger(second, fam1, fam2, s1, s2) ==
    << Sp("Form", fam1, s1, OffBox), Sp(second, fam2, s2, OffBox) >>

SizeSweepSources ==
    {<< SizedTrigger("1098", Roman, Bd, s1, s2) >> : s1 \in Around(700), s2 \in Around(1400)}
    \cup {<< SizedTrigger("1099-INT", Roman, Bd, s1, s2) >> : s1 \in Around(700), s2 \in Around(1200)}
    \cup {<< SizedTrigger("W-2", Bd, BlkCn, s1, s2) >> : s1 \in Around(700), s2 \in Around(2400)}
    \cup {<< SizedTrigger("1040", Roman, Bd, s1, s2) >> : s1 \in Around(600), s2 \in Around(900)}
    \cup {<< SizedTrigger("1098", Roman, Bd, s1, 1400), << Sp("24", Roman, sz, year_bbox) >> >> :
             s1 \in Around(700), sz \in Around(600)}

InitSizes == InitWith(SizeSweepSources)

SpecSizes == InitSizes /\ [][Next]_vars

-----------------------------------------------------------------------------
(* Documents that sweep the reference box of the 1098 year lookup *)

\* year_bbox with coordinate k moved by d
Shifted(k, d) == [year_bbox EXCEPT ![k] = @ + d]

\* lines of one run each: in the box, just inside and on the boundary of
\* either tolerance, beyond it, without a box, and in the box with another
\* family, size or text
YearBoxLines ==
    { << Sp("20", Roman, 600, Shifted(1, tolerance + 1)) >>,
      << Sp("21", Roman, 600, year_bbox) >>,
      << Sp("22", Roman, 600, Shifted(1, margin - 1)) >>,
      << Sp("23", Roman, 600, Shifted(1, margin)) >>,
      << Sp("24", Roman, 600, Shifted(4, 1 - tolerance)) >>,
      << Sp("25", Roman, 600, Shifted(4, 0 - tolerance)) >>,
      << Sp("26", Roman, 600, NoBbox) >>,
      << Sp("27", "OCRAStd", 600, year_bbox) >>,
      << Sp("28", "Helvetica", 401, year_bbox) >>,
      << Sp("29", Roman, 800, year_bbox) >>,
      << Sp("2024", Roman, 600, year_bbox) >> }

Form1098Line == << Sp("Form", Roman, 700, OffBox), Sp("1098", Bd, 1400, OffBox) >>

YearBoxSources ==
    { << Form1098Line >> }
    \cup { << a >> : a \in YearBoxLines }
    \cup { << Form1098Line, a >> : a \in YearBoxLines }
    \cup { << a, Form1098Line >> : a \in YearBoxLines }
    \cup { << Form1098Line, a, b >> : a \in YearBoxLines, b \in YearBoxLines }

InitYearBox == InitWith(YearBoxSources)

SpecYearBox == InitYearBox /\ [][Next]_vars

-----------------------------------------------------------------------------
(* Requests to the service *)

Clients == {"10.0.0.1"}

\* a W-2 with its year
W2Source ==
    << << Sp("Form", Bd, 700, OffBox), Sp("W-2", BlkCn, 2400, OffBox) >>,
       << Sp("2022", Bd, 2000, OffBox) >> >>

Readable(source) == [openable |-> TRUE, damaged |-> FALSE, source |-> source]

Unreadable == [openable |-> FALSE, damaged |-> FALSE, source |-> << >>]

\* a multipart upload: the bytes (content), their length, what libmagic
\* says of them, whether they begin with %PDF, and the file they are
Upload(filename, content, size, mime, header, file) ==
    [present |-> TRUE, filename |-> filename, content |-> content, size |-> size,
     mime |-> mime, header |-> header, file |-> file]

\* a request without the form field `file`
NoUpload ==
    [present |-> FALSE, filename |-> "", content |-> "", size |-> 0,
     mime |-> "", header |-> FALSE, file |-> Unreadable]

Uploads ==
    { Upload("w2.pdf", "w2", MAX_FILE_SIZE, "application/pdf", TRUE, Readable(W2Source)),
      Upload("copy.pdf", "w2", MAX_FILE_SIZE, "application/pdf", TRUE, Readable(W2Source)),
      Upload("large.pdf", "large", MAX_FILE_SIZE + 1, "application/pdf", TRUE, Readable(W2Source)),
      Upload("large.txt", "zeros", 11534336, "application/octet-stream", FALSE, Unreadable),
      Upload("test.pdf", "text", 38, "text/plain", FALSE, Unreadable),
      Upload("shifted.pdf", "shifted", 2048, "application/pdf", FALSE, Unreadable),
      NoUpload }

MaxRequests == 12

MaxTicks == 1

\* the clock moves by a window
TickStep == RATE_LIMIT_WINDOW

Respond(client, upload, a) ==
    [client |-> client, upload |-> upload, status |-> a.status, by |-> a.by,
     document_type |-> a.document_type, year |-> a.year, classified |-> a.classified]

\* whom an answer of 429 blocked: the client when rate_limit_check raised
\* it, the content's hash when rate_limit_file_check did
Blocked(client, upload, a) ==
    IF a.status # 429 THEN {}
    ELSE IF a.by = "rate_limit_check" THEN {<<"client", client>>}
    ELSE {<<"file", md5(upload.content)>>}

\* POST /classify: the dependency rate_limit_check, then the handler
PostClassify ==
    /\ program = "service" /\ handled < MaxRequests
    /\ \E client \in Clients, upload \in Uploads :
          LET rl == rate_limit_check(request_counts, client, now)
              a  == IF rl.status # 200
                    THEN Answer(rl.status, "rate_limit_check", file_upload_counts,
                                <<None, None>>, FALSE)
                    ELSE classify_document_endpoint(file_upload_counts, upload, now,
                                                    answers.id, answers.hw)
          IN  /\ request_counts' = rl.counts
              /\ file_upload_counts' = a.counts
              /\ response' = Respond(client, upload, a)
              /\ rejected' = rejected \cup Blocked(client, upload, a)
    /\ handled' = handled + 1
    /\ UNCHANGED <<pdf, program, pc, lines, text_spans, line_no, document_type, year,
                   calls, result, open_handles, answers, rerun_vars, now, inflight>>

\* GET /: the dependency rate_limit_check, then the description of the API
GetRoot ==
    /\ program = "service" /\ handled < MaxRequests
    /\ \E client \in Clients :
          LET rl == rate_limit_check(request_counts, client, now)
              a  == Answer(rl.status,
                           IF rl.status = 200 THEN "root" ELSE "rate_limit_check",
                           file_upload_counts, <<None, None>>, FALSE)
          IN  /\ request_counts' = rl.counts
              /\ response' = Respond(client, NoUpload, a)
              /\ rejected' = rejected \cup Blocked(client, NoUpload, a)
    /\ handled' = handled + 1
    /\ UNCHANGED <<pdf, program, pc, lines, text_spans, line_no, document_type, year,
                   calls, result, open_handles, answers, rerun_vars, now,
                   file_upload_counts, inflight>>

\* time passes between two requests
Tick ==
    /\ program = "service" /\ now < MaxTicks * TickStep
    /\ now' = now + TickStep
    /\ UNCHANGED <<pdf, program, pc, lines, text_spans, line_no, document_type, year,
                   calls, result, open_handles, answers, rerun_vars,
                   request_counts, file_upload_counts, handled, response,
                   rejected, inflight>>

\* what the two detectors answer in a deployment without their packages
\* (GOOGLE_AI_AVAILABLE and OPENAI_AVAILABLE are False)
Deployments == { [id |-> "unavailable", hw |-> "unavailable"] }

\* the requests of the first client that the service has answered at time 0
\* before the run starts: none, or all but two of those its limit allows
Backlogs == {0, RATE_LIMIT_REQUESTS - 2}

InitHttp ==
    /\ program = "service"
    /\ pc = "SERVING"
    /\ pdf = Unreadable
    /\ lines = << >>
    /\ text_spans = << >>
    /\ line_no = 0
    /\ document_type = None
    /\ year = None
    /\ calls = << >>
    /\ result = << >>
    /\ open_handles = 0
    /\ answers \in Deployments
    /\ run = 1
    /\ first = << >>
    /\ \E n \in Backlogs :
          request_counts = IF n = 0 THEN << >>
                           ELSE [c \in {"10.0.0.1"} |-> [i \in 1..n |-> 0]]
    /\ file_upload_counts = << >>
    /\ now = 0
    /\ handled = 0
    /\ response = << >>
    /\ rejected = {}
    /\ inflight = << >>

NextHttp ==
    \/ PostClassify
    \/ GetRoot
    \/ Tick

SpecHttp == InitHttp /\ [][NextHttp]_vars

-----------------------------------------------------------------------------
(* Requests to POST /classify served at once.  rate_limit_check is a plain  *)
(* `def` that the route takes through Depends: it runs in a worker thread,  *)
(* so its statements interleave with those of other requests.               *)
(* The handler is `async def`: it runs from an await to the next without    *)
(* interruption by another handler, and `await file.read()` is its only     *)
(* await.                                                                   *)

MaxInflight == 2

\* a 1040 with the year in its title
Form1040Source ==
    << << Sp("Form", Roman, 600, OffBox), Sp("1040", Bd, 900, OffBox),
          Sp("(2022)", Roman, 900, OffBox) >> >>

\* a request to POST /classify as it arrives, before rate_limit_check: its
\* locals are unset
Request(client, upload) ==
    [client |-> client, upload |-> upload, pc |-> "prune",
     current_time |-> 0, kept |-> << >>, file_content |-> NoUpload,
     response |-> << >>]

Arrivals ==
    { Request(c, u) :
         c \in Clients,
         u \in { Upload("w2.pdf", "w2", 2048, "application/pdf", TRUE, Readable(W2Source)),
                 Upload("f1040.pdf", "f1040", 2048, "application/pdf", TRUE,
                        Readable(Form1040Source)),
                 NoUpload } }

\* request r has been answered with a
Finish(r, a) ==
    LET q == inflight[r]
    IN  /\ inflight' = [inflight EXCEPT ![r].pc = "done",
                                        ![r].response = Respond(q.client, q.upload, a)]
        /\ response' = Respond(q.client, q.upload, a)
        /\ handled' = handled + 1
        /\ rejected' = rejected \cup Blocked(q.client, q.upload, a)

\* current_time = time.time() and the list comprehension over
\* request_counts[client_ip], not yet assigned
LimiterPrune ==
    /\ \E r \in DOMAIN inflight :
          /\ inflight[r].pc = "prune"
          /\ inflight' = [inflight EXCEPT
                 ![r].pc = "store",
                 ![r].current_time = now,
                 ![r].kept = Recent(Get(request_counts, inflight[r].client), now,
                                    RATE_LIMIT_WINDOW)]
    /\ UNCHANGED <<pdf, program, pc, lines, text_spans, line_no, document_type, year,
                   calls, result, open_handles, answers, rerun_vars, now,
                   request_counts, file_upload_counts, handled, response, rejected>>

\* request_counts[client_ip] = <the list just built>; the request keeps no
\* reference of its own to that list
LimiterStore ==
    /\ \E r \in DOMAIN inflight :
          /\ inflight[r].pc = "store"
          /\ request_counts' = Put(request_counts, inflight[r].client, inflight[r].kept)
          /\ inflight' = [inflight EXCEPT ![r].pc = "check", ![r].kept = << >>]
    /\ UNCHANGED <<pdf, program, pc, lines, text_spans, line_no, document_type, year,
                   calls, result, open_handles, answers, rerun_vars, now,
                   file_upload_counts, handled, response, rejected>>

\* if len(request_counts[client_ip]) >= RATE_LIMIT_REQUESTS: raise 429
LimiterCheck ==
    /\ \E r \in DOMAIN inflight :
          /\ inflight[r].pc = "check"
          /\ IF Len(Get(request_counts, inflight[r].client)) >= RATE_LIMIT_REQUESTS
             THEN Finish(r, Answer(429, "rate_limit_check", file_upload_counts,
                                   <<None, None>>, FALSE))
             ELSE /\ inflight' = [inflight EXCEPT ![r].pc = "append"]
                  /\ UNCHANGED <<handled, response, rejected>>
    /\ UNCHANGED <<pdf, program, pc, lines, text_spans, line_no, document_type, year,
                   calls, result, open_handles, answers, rerun_vars, now,
                   request_counts, file_upload_counts>>

\* request_counts[client_ip].append(current_time); return True
LimiterAppend ==
    /\ \E r \in DOMAIN inflight :
          /\ inflight[r].pc = "append"
          /\ request_counts' = Put(request_counts, inflight[r].client,
                                   Append(Get(request_counts, inflight[r].client),
                                          inflight[r].current_time))
          /\ inflight' = [inflight EXCEPT ![r].pc = "handler"]
    /\ UNCHANGED <<pdf, program, pc, lines, text_spans, line_no, document_type, year,
                   calls, result, open_handles, answers, rerun_vars, now,
                   file_upload_counts, handled, response, rejected>>

\* HandlerRead when file_content is a module global that every handler
\* between its read and its return refers to
HandlerRead_SharedBuffer ==
    /\ \E r \in DOMAIN inflight :
          LET q == inflight[r]
          IN  /\ q.pc = "handler"
              /\ IF ~q.upload.present
                 THEN Finish(r, Answer(400, "classify_document_endpoint", file_upload_counts,
                                       <<None, None>>, FALSE))
                 ELSE /\ inflight' = [x \in DOMAIN inflight |->
                                        IF x = r
                                        THEN [q EXCEPT !.pc = "body", !.file_content = q.upload]
                                        ELSE IF inflight[x].pc = "body"
                                        THEN [inflight[x] EXCEPT !.file_content = q.upload]
                                        ELSE inflight[x]]
                      /\ UNCHANGED <<handled, response, rejected>>
    /\ UNCHANGED <<pdf, program, pc, lines, text_spans, line_no, document_type, year,
                   calls, result, open_handles, answers, rerun_vars, now,
                   request_counts, file_upload_counts>>

\* the handler up to its await: 400 without a file, else
\* file_content = await file.read()
HandlerRead ==
    /\ \E r \in DOMAIN inflight :
          LET q == inflight[r]
          IN  /\ q.pc = "handler"
              /\ IF ~q.upload.present
                 THEN Finish(r, Answer(400, "classify_document_endpoint", file_upload_counts,
                                       <<None, None>>, FALSE))
                 ELSE /\ inflight' = [inflight EXCEPT ![r].pc = "body",
                                                     ![r].file_content = q.upload]
                      /\ UNCHANGED <<handled, response, rejected>>
    /\ UNCHANGED <<pdf, program, pc, lines, text_spans, line_no, document_type, year,
                   calls, result, open_handles, answers, rerun_vars, now,
                   request_counts, file_upload_counts>>

\* the endpoint after its await: validation, per-file limit, temporary
\* file, classify_document, unlink, and the answer
HandlerBody ==
    /\ \E r \in DOMAIN inflight :
          /\ inflight[r].pc = "body"
          /\ LET a == classify_document_endpoint(file_upload_counts, inflight[r].file_content,
                                                 now, answers.id, answers.hw)
             IN  /\ file_upload_counts' = a.counts
                 /\ Finish(r, a)
    /\ UNCHANGED <<pdf, program, pc, lines, text_spans, line_no, document_type, year,
                   calls, result, open_handles, answers, rerun_vars, now,
                   request_counts>>

\* the client's stamps when the requests arrive: one as old as the window,
\* then one or two fewer than the limit, one second younger
ConcurrentBacklogs ==
    { <<0>> \o [i \in 1..n |-> 1] : n \in {RATE_LIMIT_REQUESTS - 2, RATE_LIMIT_REQUESTS - 1} }

InitConcurrent ==
    /\ program = "service"
    /\ pc = "SERVING"
    /\ pdf = Unreadable
    /\ lines = << >>
    /\ text_spans = << >>
    /\ line_no = 0
    /\ document_type = None
    /\ year = None
    /\ calls = << >>
    /\ result = << >>
    /\ open_handles = 0
    /\ answers \in Deployments
    /\ run = 1
    /\ first = << >>
    /\ request_counts \in {[c \in Clients |-> b] : b \in ConcurrentBacklogs}
    /\ file_upload_counts = << >>
    /\ now = RATE_LIMIT_WINDOW
    /\ handled = 0
    /\ response = << >>
    /\ rejected = {}
    /\ inflight \in [1..MaxInflight -> Arrivals]

NextConcurrent ==
    \/ LimiterPrune
    \/ LimiterStore
    \/ LimiterCheck
    \/ LimiterAppend
    \/ HandlerRead
    \/ HandlerBody

SpecConcurrent == InitConcurrent /\ [][NextConcurrent]_vars

-----------------------------------------------------------------------------
(* The rule table of the specification (section 4.2), restated for the     *)
(* properties below: trigger text, structure, families, sizes and label.   *)

RuleTable ==
    { [label |-> "1098", texts |-> {"Form 1098"}, prefix |-> FALSE, second |-> {"1098"},
       size1 |-> 700, family1 |-> Roman, size2 |-> 1400, family2 |-> Bd],
      [label |-> "1099", texts |-> {"Form 1099-INT", "Form 1099-DIV"}, prefix |-> FALSE,
       second |-> {"1099-INT", "1099-DIV"},
       size1 |-> 700, family1 |-> Roman, size2 |-> 1200, family2 |-> Bd],
      [label |-> "W2", texts |-> {"Form W-2"}, prefix |-> FALSE, second |-> {"W-2"},
       size1 |-> 700, family1 |-> Bd, size2 |-> 2400, family2 |-> BlkCn],
      [label |-> "1040", texts |-> {"Form 1040"}, prefix |-> TRUE, second |-> {"1040"},
       size1 |-> 600, family1 |-> Roman, size2 |-> 900, family2 |-> Bd] }

\* |actual - expected| <= 2 pt, written as the two bounds of the window
InWindow(actual, expected) == expected - 200 <= actual /\ actual <= expected + 200

\* expected - 2 pt < actual < expected + 2 pt
InOpenWindow(actual, expected) == expected - 200 < actual /\ actual < expected + 200

\* trigger text, span count, span texts and families of rule r
ShapeOf(l, r) ==
    /\ IF r.prefix THEN \E t \in r.texts : startswith(l.text, t) ELSE l.text \in r.texts
    /\ IF r.prefix THEN Len(l.spans) >= 2 ELSE Len(l.spans) = 2
    /\ l.spans[1].text = "Form" /\ l.spans[2].text \in r.second
    /\ l.spans[1].font_name = r.family1 /\ l.spans[2].font_name = r.family2

\* the line fully satisfies rule r
Satisfies(l, r) ==
    /\ ShapeOf(l, r)
    /\ InWindow(l.spans[1].font_size, r.size1)
    /\ InWindow(l.spans[2].font_size, r.size2)

\* label of the rule the line satisfies, None if it satisfies none
SatisfiedRule(l) ==
    IF \E r \in RuleTable : Satisfies(l, r)
    THEN (CHOOSE r \in RuleTable : Satisfies(l, r)).label
    ELSE None

\* index of the first line satisfying a rule, 0 if there is none
FirstSatisfying(ls) ==
    LET hits == {i \in 1..Len(ls) : SatisfiedRule(ls[i]) # None}
    IN  IF hits = {} THEN 0 ELSE CHOOSE i \in hits : \A j \in hits : i <= j

\* the program has returned a classification for the file
Returned == pc = "DONE" /\ result # << >>

\* the rule matcher has run on the extracted lines and returned
Matched == Returned /\ pdf.openable /\ ~pdf.damaged

Labels == {"1098", "1099", "W2", "1040", "ID Card", "Handwritten Notes", "OTHER"}

\* a string of exactly 4 digits beginning with "20"
IsYearString(y) == Len(y) = 4 /\ SubSeq(y, 1, 2) = "20" /\ \A i \in 1..4 : Char(y, i) \in Digits

-----------------------------------------------------------------------------
(* C1 *)

\* the line of the claim: "Form" 7 pt Roman, "1098" 14 pt Bd
IsForm1098Line(l) ==
    /\ l.text = "Form 1098" /\ Len(l.spans) = 2
    /\ l.spans[1].text = "Form" /\ l.spans[1].font_size = 700
    /\ l.spans[1].font_name = "HelveticaNeueLTStd-Roman"
    /\ l.spans[2].text = "1098" /\ l.spans[2].font_size = 1400
    /\ l.spans[2].font_name = "HelveticaNeueLTStd-Bd"

\* C1: a document with the line "Form 1098" made of ("Form", 7, Roman) and
\* ("1098", 14, Bd), no earlier line satisfying a different rule, is
\* returned with document_type "1098" (by the server and by the batch script).
C1_Form1098 ==
    (/\ Matched
     /\ \E i \in 1..Len(lines) :
           /\ IsForm1098Line(lines[i])
           /\ \A j \in 1..(i - 1) : SatisfiedRule(lines[j]) \in {None, "1098"})
    => result[1] = "1098"

C1_Witness ==
    /\ Matched /\ program = "server"
    /\ Len(lines) = 2 /\ IsForm1098Line(lines[2]) /\ lines[1].text = "Form 1098"
    /\ line_no = 2 /\ result[1] = "1098"

-----------------------------------------------------------------------------
(* C2 *)

\* C2: when the 1099, W-2 or 1040 rule fires on a line, the returned
\* document_type is that rule's own label, with or without a year.
C2_OwnLabel ==
    (Matched /\ line_no > 0 /\ SatisfiedRule(lines[line_no]) \in {"1099", "W2", "1040"})
    => result[1] = SatisfiedRule(lines[line_no])

-----------------------------------------------------------------------------
(* C3 *)

IsW2ExampleLine(l) ==
    /\ Len(l.spans) = 2
    /\ l.spans[1].text = "Form" /\ l.spans[1].font_name = "HelveticaNeueLTStd-Bd"
    /\ l.spans[1].font_size = 700
    /\ l.spans[2].text = "W-2" /\ l.spans[2].font_name = "HelveticaNeueLTStd-BlkCn"
    /\ l.spans[2].font_size = 2400

Is2022At20(l) ==
    Len(l.spans) = 1 /\ l.spans[1].text = "2022" /\ l.spans[1].font_size = 2000

\* C3: the document made of the W-2 trigger line and a separate span "2022"
\* at font size 20 is classified as ("W2", "2022") by the entry point.
C3_W2Example ==
    (/\ Matched /\ program = "server" /\ Len(lines) = 2
     /\ \E i, j \in 1..2 : i # j /\ IsW2ExampleLine(lines[i]) /\ Is2022At20(lines[j]))
    => result = <<"W2", "2022">>

-----------------------------------------------------------------------------
(* C4 *)

\* C4: the matcher returns on the first line, in extraction order, that
\* fully satisfies a rule, whatever later lines satisfy; the batch matcher
\* returns that line's rule label, the server matcher a document type.
C4_FirstSatisfyingLineWins ==
    Matched =>
        /\ line_no = FirstSatisfying(lines)
        /\ (line_no > 0 /\ program = "batch") => result[1] = SatisfiedRule(lines[line_no])
        /\ (line_no > 0 /\ program = "server") => result[1] \in Labels
        /\ line_no = 0 => (program = "batch" => result = <<None, None>>)

C4_Witness ==
    /\ Matched /\ program = "batch" /\ Len(lines) = 2
    /\ SatisfiedRule(lines[1]) = "W2" /\ SatisfiedRule(lines[2]) = "1099"
    /\ line_no = 1 /\ result[1] = "W2"

-----------------------------------------------------------------------------
(* C5 *)

\* the second line is a year candidate of the 1098 lookup in every respect
\* but its font size: two digits, a Helvetica family, the reference box
IsYearCandidateDoc ==
    /\ Len(lines) = 2 /\ line_no = 1 /\ SatisfiedRule(lines[1]) = "1098"
    /\ Len(lines[2].spans) = 1
    /\ Len(lines[2].spans[1].text) = 2
    /\ \A i \in 1..2 : Char(lines[2].spans[1].text, i) \in Digits
    /\ contains(lines[2].spans[1].font_name, "Helvetica")
    /\ lines[2].spans[1].bbox = year_bbox

\* the four document-type rules accept exactly the sizes within 2 pt,
\* bounds included
RuleWindowsInclusive ==
    (Matched /\ Len(lines) >= 1) =>
        \A r \in RuleTable :
            ShapeOf(lines[1], r) =>
                (line_no = 1 <=> /\ InWindow(lines[1].spans[1].font_size, r.size1)
                                 /\ InWindow(lines[1].spans[2].font_size, r.size2))

\* C5 (as stated): every font-size check, the one of the 1098 year lookup
\* (6.0 with tolerance 2) included, accepts a size exactly 2 pt away from
\* the expected size and rejects any larger difference.
C5_AllWindowsInclusive ==
    /\ RuleWindowsInclusive
    /\ (Matched /\ IsYearCandidateDoc) =>
          (result[2] = "20" \o lines[2].spans[1].text
              <=> InWindow(lines[2].spans[1].font_size, 600))

\* C5 (amended): the size checks of the four document-type rules are
\* inclusive windows of 2 pt; the size check of the 1098 year lookup is the
\* open window: a size exactly 2 pt from 6.0 is rejected.
C5_RuleWindowsInclusiveYearWindowOpen ==
    /\ RuleWindowsInclusive
    /\ (Matched /\ IsYearCandidateDoc) =>
          /\ result[2] = "20" \o lines[2].spans[1].text
                <=> InOpenWindow(lines[2].spans[1].font_size, 600)
          /\ result[2] \in {"20" \o lines[2].spans[1].text, None, ""}

C5_Witness ==
    /\ Matched /\ program = "server" /\ IsYearCandidateDoc
    /\ lines[1].spans[1].font_size = 900
    /\ lines[2].spans[1].font_size = 800
    /\ result = <<"1098", None>>

-----------------------------------------------------------------------------
(* C6 *)

\* no span of the document could serve any year strategy: none is 4 digits
\* beginning with "20", none is 2 digits, none holds a parenthesis
NoYearToken(ls) ==
    \A i \in 1..Len(ls) : \A k \in 1..Len(ls[i].spans) :
        LET t == ls[i].spans[k].text
        IN  /\ ~IsYearString(t)
            /\ ~(Len(t) = 2 /\ \A c \in 1..2 : Char(t, c) \in Digits)
            /\ ~contains(t, "(")

\* C6: when a document-type rule fires and no span satisfies its year
\* strategy, the result is (type, None): the rule's label and an absent year.
C6_AbsentYearIsNone ==
    (Matched /\ line_no > 0 /\ NoYearToken(lines))
    => result = <<SatisfiedRule(lines[line_no]), None>>

-----------------------------------------------------------------------------
(* C7 *)

\* C7: every result of the entry point classify_document has a
\* document_type of the label set and a year that is absent or 4 digits
\* beginning with "20".
C7_ResultWellFormed ==
    (Returned /\ program = "server")
    => /\ result[1] \in Labels
       /\ result[2] = None \/ IsYearString(result[2])

-----------------------------------------------------------------------------
(* C8, C9, C10: the fallback cascade *)

\* positions in the history of the invocations of fn
CallsOf(fn) == {i \in 1..Len(calls) : calls[i].fn = fn}

\* C8: when no rule matched and the ID detector returned no opinion, the
\* handwriting detector is invoked, and "OTHER" is assigned only after it
\* returned no opinion too.
C8_HandwritingBeforeOther ==
    program = "server" =>
        /\ \A i \in CallsOf("id_check") :
              (pc = "DONE" /\ line_no = 0 /\ calls[i].ret = None)
              => \E j \in CallsOf("handwritten_check") : j > i
        /\ (pc = "OTHER" \/ (pc = "DONE" /\ result = <<"OTHER", None>>
                              /\ pdf.openable /\ ~pdf.damaged))
           => /\ CallsOf("id_check") # {}
              /\ calls[Len(calls)].fn = "handwritten_check"
              /\ calls[Len(calls)].ret = None

C8_Witness ==
    /\ program = "server" /\ pc = "DONE" /\ result = <<"OTHER", None>>
    /\ \E i \in CallsOf("id_check") : calls[i].outcome = "NOT_AN_ID"
    /\ \E j \in CallsOf("handwritten_check") : calls[j].outcome = "NO"

\* C9: the ID detector is never invoked when the matcher returned a type;
\* the handwriting detector is never invoked when the matcher returned a
\* type or the ID detector returned a label.
C9_CascadeGated ==
    /\ line_no > 0 => CallsOf("id_check") = {} /\ CallsOf("handwritten_check") = {}
    /\ \A i \in CallsOf("id_check") :
          /\ \E j \in CallsOf("analyze_form_content") : j < i /\ calls[j].ret = None
          /\ calls[i].ret # None => CallsOf("handwritten_check") = {}
    /\ \A i \in CallsOf("handwritten_check") :
          \E j \in CallsOf("id_check") : j < i /\ calls[j].ret = None

C9_Witness ==
    /\ program = "server" /\ pc = "DONE" /\ line_no > 0
    /\ CallsOf("analyze_form_content") # {}
    /\ CallsOf("id_check") = {} /\ CallsOf("handwritten_check") = {}

\* C10: a failure of a detector counts as no opinion: after a failed ID
\* check the handwriting check is still invoked, after a failed handwriting
\* check the result is "OTHER", and no failure leaves classify_document.
C10_DetectorFailureIsNoOpinion ==
    program = "server" =>
        /\ pc # "FAILED"
        /\ \A i \in CallsOf("id_check") :
              calls[i].outcome \in IdFailures
              => /\ calls[i].ret = None
                 /\ pc = "DONE" => \E j \in CallsOf("handwritten_check") : j > i
        /\ \A i \in CallsOf("handwritten_check") :
              calls[i].outcome \in HwFailures
              => /\ calls[i].ret = None
                 /\ pc = "DONE" => result = <<"OTHER", None>>

C10_Witness ==
    /\ program = "server" /\ pc = "DONE" /\ result = <<"OTHER", None>>
    /\ \E i \in CallsOf("id_check") : calls[i].outcome = "error"
    /\ \E j \in CallsOf("handwritten_check") : calls[j].outcome = "error"

-----------------------------------------------------------------------------
(* classify_document as a function and stage by stage *)

\* what the stages return is what the function returns for the file and
\* the answers the detectors gave
ClassifyDocumentAgrees ==
    (program = "server" /\ pc = "DONE")
        => result = classify_document(pdf, answers.id, answers.hw)

-----------------------------------------------------------------------------
(* C11: a file that cannot be opened *)

\* C11 as stated: when the input cannot be opened as a PDF the request
\* fails, and the caller receives no ClassificationResult: no document type
\* and no year.
C11_UnopenableIsFatal ==
    (program = "server" /\ pc = "DONE" /\ ~pdf.openable) => result = << >>

\* C11 as the code has it: when the input cannot be opened as a PDF,
\* classify_document returns the result ("OTHER", None), and neither the
\* matcher nor a detector has run.
C11_UnopenableIsOther ==
    (program = "server" /\ ~pdf.openable) =>
        /\ pc \in {"EXTRACTING", "DONE"}
        /\ pc = "DONE" =>
              /\ result = <<"OTHER", None>>
              /\ Len(calls) = 1
              /\ calls[1] = Call("extract_text_from_pdf", "raised", None)

C11_Witness ==
    program = "server" /\ ~pdf.openable /\ pc = "DONE" /\ Len(calls) = 1

-----------------------------------------------------------------------------
(* C12: a file without text *)

\* the file opens and none of its runs has text: blank or image-only pages
BlankPdf ==
    /\ pdf.openable /\ ~pdf.damaged
    /\ \A i \in 1..Len(pdf.source) : \A j \in 1..Len(pdf.source[i]) :
          strip(pdf.source[i][j].text) = ""

\* C12: a PDF that opens and yields no text spans is classified
\* ("OTHER", None) when both detectors give no opinion or fail; whatever the
\* detectors do, the request returns a result and its year is None.
C12_BlankIsOther ==
    (program = "server" /\ BlankPdf) =>
        /\ pc \notin {"YEAR_EXTRACTION", "FAILED"}
        /\ pc = "DONE" =>
              /\ result # << >>
              /\ result[1] \in {"OTHER", "ID Card", "Handwritten Notes"}
              /\ result[2] = None
              /\ (answers.id # "PASS" /\ answers.hw # "YES")
                     => result = <<"OTHER", None>>

C12_Witness ==
    /\ program = "server" /\ BlankPdf /\ Len(pdf.source) > 0 /\ pc = "DONE"
    /\ answers.id = "error" /\ answers.hw = "render_error"
    /\ result = <<"OTHER", None>>

-----------------------------------------------------------------------------
(* C13: idempotence *)

\* C13: classifying the same file a second time, with the detectors
\* answering as they did the first time, returns the document type and the
\* year of the first call.
C13_Idempotent ==
    (program = "server" /\ run = 2 /\ pc = "DONE") => result = first

C13_Witness ==
    /\ program = "server" /\ run = 2 /\ pc = "DONE"
    /\ first = <<"Handwritten Notes", None>> /\ result = first
    /\ Cardinality(CallsOf("handwritten_check")) = 2

-----------------------------------------------------------------------------
(* C14: the stages of a classification request *)

\* the steps between stages that the order EXTRACTING, MATCHING, then
\* YEAR_EXTRACTION or ID_CHECK, HANDWRITING_CHECK, OTHER, and at last DONE
\* allows; every stage may end the request
StageSteps ==
    { <<"EXTRACTING", "MATCHING">>, <<"EXTRACTING", "DONE">>,
      <<"MATCHING", "YEAR_EXTRACTION">>, <<"MATCHING", "ID_CHECK">>,
      <<"YEAR_EXTRACTION", "DONE">>,
      <<"ID_CHECK", "HANDWRITING_CHECK">>, <<"ID_CHECK", "DONE">>,
      <<"HANDWRITING_CHECK", "OTHER">>, <<"HANDWRITING_CHECK", "DONE">>,
      <<"OTHER", "DONE">> }

\* a request is in one of the stages; in DONE it has returned a document
\* type and a year, and in a stage of the cascade its step can be taken
\* (Extract, Match and YearExtract have no condition but their stage)
EndsInDone ==
    program = "server" =>
        /\ pc \in {"EXTRACTING", "MATCHING", "YEAR_EXTRACTION", "ID_CHECK",
                   "HANDWRITING_CHECK", "OTHER", "DONE"}
        /\ pc = "DONE" => (result # << >> /\ Len(result) = 2 /\ ~Falsy(result[1]))
        /\ pc = "ID_CHECK" => ENABLED IdCheck
        /\ pc = "HANDWRITING_CHECK" => ENABLED HandwrittenCheck
        /\ pc = "OTHER" => ENABLED SetOther

\* C14: a classification request moves through its stages only along
\* StageSteps, an order without a way back, so EXTRACTING is never entered
\* again; it cannot stop before DONE, and in DONE it has returned a result,
\* for every input and every detector outcome.
C14_StagesInOrder ==
    /\ [][program = "server" => (pc' = pc \/ <<pc, pc'>> \in StageSteps)]_vars
    /\ []EndsInDone

C14_Witness ==
    /\ program = "server" /\ pc = "DONE" /\ Len(calls) = 4
    /\ answers.id = "no_entities" /\ answers.hw = "zero_pages"
    /\ result = <<"OTHER", None>>

-----------------------------------------------------------------------------
(* C15: a trigger text whose line fails the rule *)

\* the text of the line is a rule's trigger text
HasTriggerText(l) ==
    \E r \in RuleTable :
        IF r.prefix THEN \E t \in r.texts : startswith(l.text, t) ELSE l.text \in r.texts

\* the trigger text is there, the structure or the fonts are not
NearMiss(l) == HasTriggerText(l) /\ SatisfiedRule(l) = None

\* C15: a line whose text is a trigger text and whose spans fail the rule
\* does not end the scan: the first later line that satisfies a rule is the
\* line the matcher returns on, and the result is that of a match.
C15_NearMissDoesNotAbort ==
    Matched =>
        \A j \in 1..Len(lines) :
            (/\ SatisfiedRule(lines[j]) # None
             /\ \A i \in 1..(j - 1) : SatisfiedRule(lines[i]) = None
             /\ \E i \in 1..(j - 1) : NearMiss(lines[i]))
            => /\ line_no = j
               /\ program = "batch" => result[1] = SatisfiedRule(lines[j])
               /\ program = "server" =>
                     /\ result[1] \in Labels \ {"OTHER", "ID Card", "Handwritten Notes"}
                     /\ CallsOf("id_check") = {}

C15_Witness ==
    /\ Matched /\ program = "server" /\ Len(lines) = 2
    /\ lines[1].text = "Form W-2" /\ NearMiss(lines[1])
    /\ SatisfiedRule(lines[2]) = "1040" /\ line_no = 2

-----------------------------------------------------------------------------
(* C16: PDF handles *)

\* C16 as stated: every PDF handle the classifier opens, in the extractor
\* and in the handwriting check, is closed on every exit path, so a file
\* that has been dealt with leaves no handle open.
C16_HandlesClosed ==
    pc \in {"DONE", "FAILED"} => open_handles = 0

-----------------------------------------------------------------------------
(* C17: what the extractor keeps *)

\* the runs of the source that have text, as (line, position)
TextRuns(source) ==
    UNION { {<<i, j>> : j \in {k \in 1..Len(source[i]) : strip(source[i][k].text) # ""}} :
            i \in 1..Len(source) }

\* the extractor has returned its two lists
Extracted ==
    /\ pdf.openable /\ ~pdf.damaged
    /\ pc \notin {"EXTRACTING", "BATCH", "FAILED"}

\* C17: every span of the extractor's output has a non-empty trimmed text
\* and every line has at least one span; the spans are the source's runs
\* with text, the lines the source's lines with such a run, and no others.
C17_NoEmptyRuns ==
    Extracted =>
        /\ \A i \in 1..Len(text_spans) :
              text_spans[i].text # "" /\ strip(text_spans[i].text) = text_spans[i].text
        /\ \A i \in 1..Len(lines) :
              /\ Len(lines[i].spans) >= 1
              /\ lines[i].text # ""
              /\ \A j \in 1..Len(lines[i].spans) : lines[i].spans[j].text # ""
        /\ Len(text_spans) = Cardinality(TextRuns(pdf.source))
        /\ Len(lines) = Cardinality({rc[1] : rc \in TextRuns(pdf.source)})

C17_Witness ==
    /\ Extracted /\ pc = "MATCHING"
    /\ Len(pdf.source) = 2 /\ Len(pdf.source[1]) = 2
    /\ pdf.source[1][1].text = " " /\ pdf.source[2][1].text = "  "
    /\ Len(lines) = 1 /\ Len(text_spans) = 1 /\ text_spans[1].text = "2021"

-----------------------------------------------------------------------------
(* C20: the year of a W-2 *)

\* positions of the spans of the document that are a year of four digits
YearSpans == {i \in 1..Len(text_spans) : IsYearString(text_spans[i].text)}

\* those of them set larger than 15 pt
LargeYearSpans == {i \in YearSpans : text_spans[i].font_size > 1500}

\* the year the two passes of the claim find, given that there is one
TwoPassYear ==
    LET pass == IF LargeYearSpans # {} THEN LargeYearSpans ELSE YearSpans
    IN  text_spans[CHOOSE i \in pass : \A j \in pass : i <= j].text

\* the W-2 rule has fired on the line the matcher returned on
W2Fired == Matched /\ line_no > 0 /\ SatisfiedRule(lines[line_no]) = "W2"

\* C20: after the W-2 rule has fired, the year is the first span of exactly
\* four digits beginning with "20" and larger than 15 pt, whatever smaller
\* year precedes it, and without such a span the first span of four digits
\* beginning with "20" of any size.
C20_W2YearTwoPasses ==
    (W2Fired /\ YearSpans # {}) => result[2] = TwoPassYear

\* the same for the batch script alone
W2YearTwoPassesInBatch ==
    (W2Fired /\ YearSpans # {} /\ program = "batch") => result[2] = TwoPassYear

-----------------------------------------------------------------------------
(* C18, C19: the limits of POST /classify *)

\* the uploads of a content that were admitted within the current window
AdmittedInWindow(content) ==
    Len(Recent(Get(file_upload_counts, md5(content)), now, RATE_LIMIT_FILE_WINDOW))

\* C18 as stated: uploads of the same content are limited to 5 per window;
\* of 6 uploads of one PDF in succession the 6th at the latest is answered
\* 429, so no content has 6 admitted uploads within a window.
C18_FivePerWindow ==
    \A u \in Uploads : AdmittedInWindow(u.content) <= 5

\* the content is longer than the maximum file size
TooLarge(u) == u.size > MAX_FILE_SIZE

\* the content is no PDF: wrong MIME type or no %PDF header
NotPdf(u) == u.mime # "application/pdf" \/ ~u.header

\* the last request was an upload and was answered as C19 says
RejectedAsInvalid ==
    /\ TooLarge(response.upload) => response.status = 413
    /\ (~TooLarge(response.upload) /\ NotPdf(response.upload)) => response.status = 400
    /\ (TooLarge(response.upload) \/ NotPdf(response.upload)) => ~response.classified

\* no upload that is too large or no PDF is held in file_upload_counts
InvalidNeverRecorded ==
    \A u \in Uploads :
        (u.present /\ (TooLarge(u) \/ NotPdf(u))) => md5(u.content) \notin DOMAIN file_upload_counts

\* C19 as stated: an upload that is too large is answered 413, one that is
\* no PDF 400, without a classification and without a record against the
\* per-file limit.
C19_InvalidUploadRejected ==
    /\ (response # << >> /\ response.upload.present) => RejectedAsInvalid
    /\ InvalidNeverRecorded

\* C19 with the limiter that runs before the handler: a request that
\* rate_limit_check rejects is answered 429 whatever it uploads; an upload
\* of an admitted request that is too large is answered 413, one that is no
\* PDF 400; in every case nothing is classified and nothing is recorded
\* against the per-file limit.
C19_InvalidUploadRejectedOnceAdmitted ==
    /\ (response # << >> /\ response.upload.present) =>
          IF response.by = "rate_limit_check"
          THEN response.status = 429 /\ ~response.classified
          ELSE RejectedAsInvalid
    /\ InvalidNeverRecorded

C19_Witness ==
    /\ response # << >> /\ response.upload.filename = "shifted.pdf"
    /\ response.status = 400 /\ response.by = "validate_file_content"
    /\ AdmittedInWindow("w2") = 2
    /\ DOMAIN file_upload_counts = {md5("w2")}

-----------------------------------------------------------------------------
(* C21, C22: the year of a 1099 and of a 1040 *)

\* positions of the spans of the document that are two digits, the first "2"
ShortYearSpans ==
    {i \in 1..Len(text_spans) :
        /\ Len(text_spans[i].text) = 2
        /\ Char(text_spans[i].text, 1) = "2"
        /\ Char(text_spans[i].text, 2) \in Digits}

\* the least position of a non-empty set of positions
FirstOf(S) == CHOOSE i \in S : \A j \in S : i <= j

\* the year the scan of the whole document finds, given that it finds one:
\* the first year of four digits, else "20" and the first two digits
ScanYear ==
    IF YearSpans # {}
    THEN text_spans[FirstOf(YearSpans)].text
    ELSE "20" \o text_spans[FirstOf(ShortYearSpans)].text

\* the rule with this label has fired on the line the matcher returned on
Fired(label) == Matched /\ line_no > 0 /\ SatisfiedRule(lines[line_no]) = label

\* C21: after the 1099 rule has fired, the year is the first span of the
\* whole document, lines before the trigger line included, that is exactly
\* four digits beginning with "20"; without such a span it is "20" followed
\* by the first span that is exactly two digits beginning with "2".
C21_1099YearTwoPasses ==
    (Fired("1099") /\ YearSpans \cup ShortYearSpans # {}) => result[2] = ScanYear

\* the same for the batch script alone
Year1099TwoPassesInBatch ==
    (Fired("1099") /\ YearSpans \cup ShortYearSpans # {} /\ program = "batch")
        => result[2] = ScanYear

\* the text between the first "(" and the first ")" of t, None when t has
\* no such pair in this order
Parenthesized(t) ==
    LET opens  == {i \in 1..Len(t) : Char(t, i) = "("}
        closes == {i \in 1..Len(t) : Char(t, i) = ")"}
    IN  IF opens = {} \/ closes = {} THEN None
        ELSE IF FirstOf(closes) < FirstOf(opens) THEN None
        ELSE SubSeq(t, FirstOf(opens) + 1, FirstOf(closes) - 1)

\* the matching line carries a year in parentheses
HasTitleYear == IsYearString(Parenthesized(lines[line_no].text))

\* C22: after the 1040 rule has fired, the year is the parenthesized part of
\* the matching line's text when that is exactly four digits beginning with
\* "20"; otherwise the first span of four digits beginning with "20" of the
\* whole document, and failing that "20" and the first span of two digits
\* beginning with "2".
C22_1040YearThreeSteps ==
    (Fired("1040") /\ (HasTitleYear \/ YearSpans \cup ShortYearSpans # {}))
        => result[2] = IF HasTitleYear
                       THEN Parenthesized(lines[line_no].text)
                       ELSE ScanYear

\* the same for the batch script alone
Year1040ThreeStepsInBatch ==
    (Fired("1040") /\ (HasTitleYear \/ YearSpans \cup ShortYearSpans # {})
                   /\ program = "batch")
        => result[2] = IF HasTitleYear
                       THEN Parenthesized(lines[line_no].text)
                       ELSE ScanYear

-----------------------------------------------------------------------------
(* C23: the year of a 1098 *)

\* the tolerance the running program is configured with
ConfiguredTolerance == IF program = "server" THEN tolerance ELSE margin

\* the span has a bounding box, every coordinate of it at most `reach` from
\* the reference box or, with `open`, nearer than `reach`
InReferenceBox(s, reach, open) ==
    /\ s.bbox # NoBbox
    /\ \A k \in 1..4 :
          LET d == IF s.bbox[k] >= year_bbox[k]
                   THEN s.bbox[k] - year_bbox[k]
                   ELSE year_bbox[k] - s.bbox[k]
          IN  IF open THEN d < reach ELSE d <= reach

\* two digits, set less than 2 pt from 6.0 (the open window of C5) in a
\* family that contains "Helvetica"
IsBoxYearText(s) ==
    /\ Len(s.text) = 2 /\ Char(s.text, 1) \in Digits /\ Char(s.text, 2) \in Digits
    /\ InOpenWindow(s.font_size, 600)
    /\ \E i \in 1..Len(s.font_name) - 8 : SubSeq(s.font_name, i, i + 8) = "Helvetica"

\* positions of the spans the 1098 year can be read from
BoxYearSpans(open) ==
    {i \in 1..Len(text_spans) :
        /\ InReferenceBox(text_spans[i], ConfiguredTolerance, open)
        /\ IsBoxYearText(text_spans[i])}

\* the 1098 rule has fired, the year is read from the first of the spans S,
\* and a span without a box neither is that span nor stops the lookup
YearFromBox(S) ==
    Fired("1098") =>
        /\ result[1] \in {"1098"}
        /\ S # {} => /\ result[2] = "20" \o text_spans[FirstOf(S)].text
                     /\ text_spans[FirstOf(S)].bbox # NoBbox

\* C23 as stated: after the 1098 rule has fired, the year is "20" and the
\* text of the first span whose box has every coordinate within the
\* configured tolerance of the reference box, the boundary included, whose
\* text is two digits, whose size is within 2 of 6.0 and whose family
\* contains "Helvetica"; a span without a box is never selected and causes
\* no error.
C23_YearInBoxBoundaryIncluded == YearFromBox(BoxYearSpans(FALSE))

\* C23 with the boundary excluded: a coordinate must differ from the
\* reference box by less than the configured tolerance (20 in the server,
\* 3.0 in the batch script); without such a span there is no year.
C23_YearInBoxBoundaryExcluded ==
    /\ YearFromBox(BoxYearSpans(TRUE))
    /\ (Fired("1098") /\ BoxYearSpans(TRUE) = {}) => Falsy(result[2])

\* the server read "24", one hundredth inside the tolerance, after passing
\* over "25" on its boundary
C23_Witness ==
    /\ program = "server" /\ Fired("1098")
    /\ Len(text_spans) = 4
    /\ text_spans[3].text = "25" /\ text_spans[3].bbox = Shifted(4, 0 - tolerance)
    /\ text_spans[4].text = "24" /\ text_spans[4].bbox = Shifted(4, 1 - tolerance)
    /\ result = <<"1098", "2024">>

-----------------------------------------------------------------------------
(* C24: results of the fallback cascade *)

\* the types only the cascade assigns
CascadeTypes == {"ID Card", "Handwritten Notes", "OTHER"}

\* C24: a result whose document_type is "ID Card", "Handwritten Notes" or
\* "OTHER" has the year None, and while the cascade runs the year that will
\* be returned is None.
C24_CascadeHasNoYear ==
    /\ (Returned /\ result[1] \in CascadeTypes) => result[2] = None
    /\ pc \in {"ID_CHECK", "HANDWRITING_CHECK", "OTHER"} => year = None

\* a document with a year token but no rule's line went through both
\* detectors and was returned as OTHER
C24_Witness ==
    /\ Returned /\ result = <<"OTHER", None>>
    /\ YearSpans # {}
    /\ CallsOf("id_check") # {} /\ CallsOf("handwritten_check") # {}

-----------------------------------------------------------------------------
(* C28: the two rule matchers on the same lines *)

\* what each matcher returns for the lines that were extracted
ServerMatch == analyze_form_content(text_spans, lines)

ImprovedMatch == analyze_form_content_improved(text_spans, lines)

\* the matcher of the running program has just returned on the lines it
\* was given
JustMatched ==
    /\ pdf.openable /\ ~pdf.damaged
    /\ \/ program = "server" /\ pc \in {"YEAR_EXTRACTION", "ID_CHECK"}
       \/ program = "batch" /\ pc = "DONE"

-----------------------------------------------------------------------------
(* C27: what a rejection leaves behind *)

\* the step answers a request
Answers == handled' = handled + 1

\* no list of the table is longer after the step than before it
NothingRecorded(before, after) ==
    \A k \in DOMAIN after : Len(after[k]) <= Len(Get(before, k))

\* the stamps of the answered request's client, of its content, that are
\* younger than the window when it arrives
ClientStamps ==
    Recent(Get(request_counts, response'.client), now, RATE_LIMIT_WINDOW)

FileStamps ==
    Recent(Get(file_upload_counts, md5(response'.upload.content)), now,
           RATE_LIMIT_FILE_WINDOW)

\* a client with fewer than RATE_LIMIT_REQUESTS stamps in the window is let
\* through by rate_limit_check, and a content with fewer than
\* RATE_LIMIT_PER_FILE by rate_limit_file_check, whatever was rejected before
AdmittedAgain ==
    /\ Len(ClientStamps) < RATE_LIMIT_REQUESTS => response'.by # "rate_limit_check"
    /\ Len(FileStamps) < RATE_LIMIT_PER_FILE => response'.by # "rate_limit_file_check"

\* C27 as stated: a request answered 429 by the per-client or by the
\* per-file limiter records no timestamp, and once the recorded timestamps
\* are older than the window the rejected client or file is admitted again.
C27_RejectedRecordsNothing ==
    [][Answers =>
          /\ response'.status = 429 =>
                /\ NothingRecorded(request_counts, request_counts')
                /\ NothingRecorded(file_upload_counts, file_upload_counts')
          /\ AdmittedAgain]_vars

\* C27 with the order of the two limiters: a request that rate_limit_check
\* rejects records nothing; a request that rate_limit_file_check rejects
\* records nothing against the file, and has been stamped against its client
\* by rate_limit_check, which ran first; a limiter lets a client or a file
\* through again once its stamps within the window are below the limit.
C27_RejectedRecordsNothingAgainstItsLimit ==
    [][Answers =>
          /\ (response'.status = 429 /\ response'.by = "rate_limit_check") =>
                /\ NothingRecorded(request_counts, request_counts')
                /\ NothingRecorded(file_upload_counts, file_upload_counts')
          /\ (response'.status = 429 /\ response'.by = "rate_limit_file_check") =>
                /\ NothingRecorded(file_upload_counts, file_upload_counts')
                /\ Get(request_counts', response'.client) = Append(ClientStamps, now)
          /\ AdmittedAgain]_vars

\* the content was rejected as the 11th upload within a window, the window
\* passed, and the 12th upload was classified; of the client's stamps, the
\* one of the rejected upload among them, only the new one is left
C27_Witness ==
    /\ response # << >> /\ response.status = 200 /\ response.classified
    /\ <<"file", md5(response.upload.content)>> \in rejected
    /\ now = RATE_LIMIT_FILE_WINDOW
    /\ handled = RATE_LIMIT_PER_FILE + 2
    /\ Get(file_upload_counts, md5(response.upload.content)) = <<now>>
    /\ Get(request_counts, response.client) = <<now>>

-----------------------------------------------------------------------------
(* C25: requests served at once do not change one another's classification *)

\* what request q is answered when the service serves it alone, from empty
\* tables
Alone(q) ==
    classify_document_endpoint(<< >>, q.upload, q.current_time, answers.id, answers.hw)

\* an answered request that no limiter rejected has the status, the
\* document_type and the year of the same request served alone
AnsweredAsAlone ==
    \A r \in DOMAIN inflight :
        (inflight[r].pc = "done" /\ inflight[r].response.status # 429)
            => /\ inflight[r].response.status = Alone(inflight[r]).status
               /\ inflight[r].response.document_type = Alone(inflight[r]).document_type
               /\ inflight[r].response.year = Alone(inflight[r]).year

\* a step changes the locals of one request at most and, of what the
\* requests share, request_counts and file_upload_counts alone
SharesOnlyCounters ==
    /\ Cardinality({r \in DOMAIN inflight : inflight'[r] # inflight[r]}) <= 1
    /\ \A r \in DOMAIN inflight :
          inflight'[r].file_content # inflight[r].file_content
              => inflight'[r].file_content = inflight[r].upload
    /\ UNCHANGED <<pdf, program, pc, lines, text_spans, line_no, document_type, year,
                   calls, result, open_handles, answers, rerun_vars>>

\* C25: however the requests served at once interleave, each request that
\* is answered with a classification gets the (document_type, year) it would
\* get served alone, and the requests share no mutable state but the two
\* rate-limiting tables.
C25_RequestsIndependent ==
    /\ []AnsweredAsAlone
    /\ [][SharesOnlyCounters]_vars

\* two uploads of different forms, read one after the other before either
\* was classified, each answered with its own form's year
C25_Witness ==
    /\ DOMAIN inflight = 1..MaxInflight
    /\ inflight[1].pc = "done" /\ inflight[2].pc = "done"
    /\ inflight[1].upload.filename = "w2.pdf" /\ inflight[1].response.classified
    /\ inflight[1].response.year = None
    /\ inflight[2].upload.filename = "f1040.pdf" /\ inflight[2].response.classified
    /\ inflight[2].response.year = "2022"
    /\ response.upload.filename = "w2.pdf"

-----------------------------------------------------------------------------
(* C26: rate_limit_check under requests of one client served at once *)

\* the requests of client c that rate_limit_check has let through, and
\* those of them it has stamped
PassedCheck(c) ==
    {r \in DOMAIN inflight :
        /\ inflight[r].client = c
        /\ \/ inflight[r].pc \in {"append", "handler", "body"}
           \/ inflight[r].pc = "done" /\ inflight[r].response.by # "rate_limit_check"}

Stamped(c) == {r \in PassedCheck(c) : inflight[r].pc # "append"}

\* the stamps of client c that the requests of this run have left
StampsOfRun(c) == Len(SelectSeq(Get(request_counts, c), LAMBDA t : t = now))

\* the stamps of client c that are within the window
StampsInWindow(c) == Len(Recent(Get(request_counts, c), now, RATE_LIMIT_WINDOW))

\* C26: however the requests of one client interleave, the client's list
\* never holds more than RATE_LIMIT_REQUESTS timestamps, no more requests
\* pass the check than the limit leaves room for, and the stamp of every
\* request that was let through stays recorded.
C26_LimiterHoldsUnderInterleaving ==
    \A c \in Clients :
        /\ Len(Get(request_counts, c)) <= RATE_LIMIT_REQUESTS
        /\ StampsInWindow(c) <= RATE_LIMIT_REQUESTS
        /\ StampsOfRun(c) = Cardinality(Stamped(c))

====
